---- MODULE Spec2Model ----
(***************************************************************************)
(* State-machine model of the book pipeline of xhi-backend                 *)
(* (app/routers/books.py): the ledger (books, chapters and progress        *)
(* tables), the content-addressed vaults on disk, the EPUB parser and the  *)
(* renderer, and the request handlers upload_book, delete_book, get_cover, *)
(* download_book, get_content, get_image and update_progress. A handler    *)
(* that writes is split at the points where it reads or writes the ledger  *)
(* or the disk, so that concurrent requests interleave exactly where the   *)
(* code lets them.                                                         *)
(***************************************************************************)
EXTENDS Integers, Sequences, FiniteSets, TLC

\* ---------------------------------------------------------------- bounds
NumProcs == 2       \* request workers running at the same time
NumUsers == 2       \* registered users
NumDigests == 2     \* distinct uploaded byte contents
MaxBookId == 2      \* ids the books table hands out before the model stops

Procs == 1..NumProcs
Users == 1..NumUsers
Digests == 1..NumDigests

\* ------------------------------------------------------- program constants
MiB == 1024 * 1024

MAX_STORAGE_BYTES == 1024 * 1024 * 1024

\* The uploads the model draws from. The bytes with digest 1 are an EPUB, every
\* other digest a PDF; a client sends them under a name of its choice, of which
\* only the extension matters to the code.
FileNames(d) == IF d = 1 THEN {"b.epub", "b.EPUB", "b.txt"} ELSE {"b.pdf", "b.txt"}

\* The uploads a client may send: the bytes, by their digest, and the name.
Uploads == UNION { { <<d, name>> : name \in FileNames(d) } : d \in Digests }

\* Those among them sent under a lower-case name.
PlainUploads == {f \in Uploads : f[2] \in {"b.epub", "b.pdf", "b.txt"}}

\* The size of an upload is a function of its bytes, hence of its digest
\* (calculate_file_hash_and_size reads one stream for both).
SizeOf(d) == IF d = 1 THEN 512 * MiB ELSE IF d = 2 THEN 512 * MiB + 1 ELSE 1

\* A path is a sequence of components; NoPath stands for None.
NoPath == <<>>

OBJECTS_DIR == <<"objects">>

\* The hex digest naming the vault of the bytes d.
hexdigest(d) == IF d = 1 THEN "d1" ELSE IF d = 2 THEN "d2" ELSE "d3"

vault_path(d) == OBJECTS_DIR \o <<hexdigest(d)>>

\* file.filename.lower().endswith(('.epub', '.pdf'))
ValidExtension(name) == name \in {"b.epub", "b.EPUB", "b.pdf"}

\* file.filename.endswith('.epub') / endswith('.pdf'): case-sensitive
IsEpubName(name) == name = "b.epub"

IsPdfName(name) == name = "b.pdf"

\* ---------------------------------------------------------- the EPUB parser
MaxSpine == 3       \* spine items of an archive

\* What the parser meets in an archive. A spine item resolves to an HTML
\* document, to an item of another type, to nothing, or to a document whose
\* bytes are not UTF-8; each stage of the cover search finds a cover, finds
\* none, or raises.
SpineKinds == {"doc", "image", "none", "undecodable"}

StageOutcomes == {"found", "empty", "raises"}

Spines == UNION { [1..n -> SpineKinds] : n \in 0..MaxSpine }

Archives ==
    [bytes : {0}, readable : BOOLEAN, spine : Spines,
     planA : StageOutcomes, planB : StageOutcomes, planC : StageOutcomes]

\* The spine of the EPUB with bytes d: the kind of each spine item, in order.
Spine(d) == <<"doc", "image", "doc">>

\* The EPUB with bytes d, as the parser meets it; ok says whether
\* epub.read_epub can read it.
Archive(d, ok) ==
    [bytes |-> d, readable |-> ok, spine |-> Spine(d),
     planA |-> IF d = 1 THEN "found" ELSE "empty", planB |-> "empty",
     planC |-> "empty"]

\* f"chapter_{i}.html"
chapter_filename(i) ==
    IF i = 0 THEN "chapter_0.html" ELSE IF i = 1 THEN "chapter_1.html"
    ELSE IF i = 2 THEN "chapter_2.html" ELSE IF i = 3 THEN "chapter_3.html"
    ELSE "chapter_n.html"

\* find_epub_cover with Plan A outside a try of its own: its exception ends
\* the search in the outer handler.
find_epub_cover_NoInnerTry(archive) ==
    IF archive.planA = "found" THEN "A"
    ELSE IF archive.planA = "raises" THEN "none"
    ELSE IF archive.planB = "found" THEN "B"
    ELSE IF archive.planC = "found" THEN "C"
    ELSE "none"

\* The try/except around Plan A (lines 109, 144) and Plan B (lines 149, 177):
\* an exception is printed and the stage counts as having found nothing.
Caught(outcome) == IF outcome = "raises" THEN "empty" ELSE outcome

\* Lines 95-192: the stage whose cover find_epub_cover saves and returns, or
\* "none" for None. Plan C has no try of its own: its exception is caught by
\* the outer handler (line 189), after which None is returned.
find_epub_cover(archive) ==
    IF Caught(archive.planA) = "found" THEN "A"
    ELSE IF Caught(archive.planB) = "found" THEN "B"
    ELSE IF archive.planC = "found" THEN "C"
    ELSE "none"

\* Lines 214-239: the chapter dicts, in spine order, from enumerate index i on:
\* for a spine item that is a document, file name chapter_{i}.html and order
\* i; title and size_bytes are read off the text, a function of the bytes.
RECURSIVE process_chapters(_, _, _)
process_chapters(spine, i, bytes) ==
    IF i >= Len(spine) THEN <<>>
    ELSE IF spine[i + 1] = "doc"
         THEN <<[order |-> i, file_name |-> chapter_filename(i), text |-> bytes]>>
                  \o process_chapters(spine, i + 1, bytes)
    ELSE process_chapters(spine, i + 1, bytes)

\* Lines 194-243: unpack_and_parse_epub. Every exception, of epub.read_epub
\* (line 197) or of decode (line 219), is caught inside and answered with
\* ([], None).
unpack_and_parse_epub(archive, vp) ==
    IF ~archive.readable \/ \E i \in DOMAIN archive.spine : archive.spine[i] = "undecodable"
    THEN [chapters_data |-> <<>>, cover_path |-> NoPath, raised |-> FALSE]
    ELSE [chapters_data |-> process_chapters(archive.spine, 0, archive.bytes),
          cover_path |-> IF find_epub_cover(archive) # "none"
                         THEN vp \o <<"cover.jpg">> ELSE NoPath,
          raised |-> FALSE]

Range(f) == {f[i] : i \in DOMAIN f}

\* The chapter dicts unpack_and_parse_epub produces for the bytes d.
ParsedChapters(d) == Range(process_chapters(Spine(d), 0, d))

\* Whether find_epub_cover finds a cover in the bytes d.
HasCover(d) == find_epub_cover(Archive(d, TRUE)) # "none"

\* The image files the parser writes below unpacked/images.
ImageFiles == {"a.png"}

VARIABLES
    books,      \* the books table: a set of rows
    chapters,   \* the chapters table: a set of rows
    next_id,    \* the next primary key of the books table
    vault,      \* the disk below OBJECTS_DIR, per digest
    req,        \* per worker: the request it is handling and its local variables
    progress,   \* the user_book_progress table: a set of rows
    next_progress_id,   \* the next primary key of the user_book_progress table
    call        \* a parser call on its own: the archive given and what it returned

vars == <<books, chapters, next_id, vault, req, progress, next_progress_id, call>>

NoVault == [exists |-> FALSE, originals |-> {}, unpacked |-> FALSE, cover |-> {}]

\* A response body: nothing, the empty string, or rendered HTML with its number
\* of viewport meta tags and the book id its image URLs name.
NoBody == [kind |-> "none", viewports |-> 0, images_of |-> 0]

\* No parser has been called on its own.
NoReturn ==
    [chapters_data |-> <<>>, cover_path |-> NoPath, raised |-> FALSE,
     cover |-> "none", body |-> NoBody]

NoHtml == [viewports |-> 0, head |-> FALSE, body |-> FALSE]

NoCall ==
    [fn |-> "none", given |-> "none", archive |-> Archive(0, FALSE), html |-> NoHtml,
     returned |-> NoReturn]

IdleReq ==
    [op |-> "idle", pc |-> "idle", user |-> 0, file_hash |-> 0, filename |-> "",
     book_id |-> 0, name |-> <<>>, branch |-> "none", parse |-> "none",
     final_file_path |-> NoPath, final_cover_path |-> NoPath,
     final_unpacked_path |-> NoPath, existing |-> 0,
     chapters_data |-> {}, new_book |-> 0, status |-> 0, detail |-> "",
     served |-> NoPath, method |-> "", chapter_id |-> 0, body |-> NoBody,
     update |-> <<>>, prog |-> 0]

Init ==
    /\ books = {}
    /\ chapters = {}
    /\ next_id = 1
    /\ vault = [d \in Digests |-> NoVault]
    /\ req = [p \in Procs |-> IdleReq]
    /\ progress = {}
    /\ next_progress_id = 1
    /\ call = NoCall

\* ---------------------------------------------------------------- helpers
Set(p, r) == req' = [req EXCEPT ![p] = r]

\* The request ends with an HTTP status. What it was asked, the branch it took
\* and what it produced stay readable until Return; its scratch paths do not.
Finish(r, code, why) ==
    [r EXCEPT !.pc = "done", !.status = code, !.detail = why, !.existing = 0,
              !.final_file_path = NoPath, !.final_cover_path = NoPath,
              !.final_unpacked_path = NoPath]

RECURSIVE SumSizes(_)
SumSizes(S) ==
    IF S = {} THEN 0
    ELSE LET b == CHOOSE x \in S : TRUE IN b.file_size + SumSizes(S \ {b})

get_user_storage_usage(user_id) == SumSizes({b \in books : b.owner_id = user_id})

\* The uploads past their checks that have not yet taken their book id.
Admitted ==
    {p \in Procs : req[p].pc \in {"reuse_book", "reuse_chapters", "mkdir", "copy",
                                   "parse", "commit_book"}}

BookRow(id) == {b \in books : b.id = id}

\* ------------------------------------------------------------ upload_book
\* Lines 252-255: the request arrives; Validating, then Hashing. A file turned
\* away for its name is never hashed.
upload_Validating(p, files) ==
    /\ req[p].pc = "idle"
    /\ \E u \in Users, file \in files :
        LET name == file[2]
            r == [IdleReq EXCEPT !.op = "upload", !.user = u, !.filename = name]
        IN  IF ValidExtension(name)
            THEN Set(p, [r EXCEPT !.pc = "quota", !.file_hash = file[1]])
            ELSE Set(p, Finish(r, 400, "Invalid file type"))
    /\ UNCHANGED <<books, chapters, next_id, vault>>
    /\ UNCHANGED <<progress, next_progress_id, call>>

\* QuotaExceeded with the comparison off by one: a sum equal to the cap refused.
QuotaExceeded_AtCap(usage, file_size) == usage + file_size >= MAX_STORAGE_BYTES

\* QuotaExceeded with the owner's usage left out: only the new file is measured.
QuotaExceeded_FileOnly(usage, file_size) == file_size > MAX_STORAGE_BYTES

\* Lines 255-257: Hashing and QuotaCheck.
QuotaExceeded(usage, file_size) == usage + file_size > MAX_STORAGE_BYTES

upload_QuotaCheck(p) ==
    /\ req[p].op = "upload" /\ req[p].pc = "quota"
    /\ IF QuotaExceeded(get_user_storage_usage(req[p].user), SizeOf(req[p].file_hash))
       THEN Set(p, Finish(req[p], 400, "Storage limit exceeded"))
       ELSE Set(p, [req[p] EXCEPT !.pc = "dup"])
    /\ UNCHANGED <<books, chapters, next_id, vault>>
    /\ UNCHANGED <<progress, next_progress_id, call>>

\* DuplicateRows without the owner filter: a ledger-wide duplicate check.
DuplicateRows_AnyOwner(user_id, file_hash) ==
    {b \in books : b.file_hash = file_hash}

\* Lines 259-261: DuplicateCheck, scoped to the owner.
DuplicateRows(user_id, file_hash) ==
    {b \in books : b.owner_id = user_id /\ b.file_hash = file_hash}

upload_DuplicateCheck(p) ==
    /\ req[p].op = "upload" /\ req[p].pc = "dup"
    /\ IF DuplicateRows(req[p].user, req[p].file_hash) # {}
       THEN Set(p, Finish(req[p], 400, "Book already exists"))
       ELSE Set(p, [req[p] EXCEPT !.pc = "exists"])
    /\ UNCHANGED <<books, chapters, next_id, vault>>
    /\ UNCHANGED <<progress, next_progress_id, call>>

\* Lines 263-270: the locals are set and vault_path.exists() picks Reuse or Ingest. The model admits an
\* upload past its checks only while the books table has an id left for it.
upload_VaultExists(p) ==
    /\ req[p].op = "upload" /\ req[p].pc = "exists"
    /\ next_id + Cardinality(Admitted) <= MaxBookId
    /\ LET r == [req[p] EXCEPT !.final_file_path =
                                    vault_path(req[p].file_hash) \o <<req[p].filename>>]
       IN  IF vault[req[p].file_hash].exists
           THEN Set(p, [r EXCEPT !.pc = "reuse_book", !.branch = "reuse"])
           ELSE Set(p, [r EXCEPT !.pc = "mkdir", !.branch = "ingest"])
    /\ UNCHANGED <<books, chapters, next_id, vault>>
    /\ UNCHANGED <<progress, next_progress_id, call>>

\* Lines 272-276: Reuse, the first row with this digest (no ORDER BY: any row).
upload_ReuseBook(p) ==
    /\ req[p].op = "upload" /\ req[p].pc = "reuse_book"
    /\ LET rows == {b \in books : b.file_hash = req[p].file_hash}
       IN  IF rows = {}
           THEN Set(p, [req[p] EXCEPT !.pc = "commit_book"])
           ELSE \E existing \in rows :
                    Set(p, [req[p] EXCEPT !.pc = "reuse_chapters",
                                          !.existing = existing.id,
                                          !.final_file_path = existing.file_path,
                                          !.final_cover_path = existing.cover_path,
                                          !.final_unpacked_path = existing.unpacked_path])
    /\ UNCHANGED <<books, chapters, next_id, vault>>
    /\ UNCHANGED <<progress, next_progress_id, call>>

\* Lines 277-279: Reuse, the chapter rows of the existing book.
upload_ReuseChapters(p) ==
    /\ req[p].op = "upload" /\ req[p].pc = "reuse_chapters"
    /\ Set(p, [req[p] EXCEPT
                 !.pc = "commit_book",
                 !.chapters_data =
                     { [order |-> c.order, file_name |-> c.file_name, text |-> c.text] :
                         c \in {x \in chapters : x.book_id = req[p].existing} }])
    /\ UNCHANGED <<books, chapters, next_id, vault>>
    /\ UNCHANGED <<progress, next_progress_id, call>>

\* Line 282: Ingest, vault_path.mkdir(parents=True, exist_ok=True).
Mkdir(v) == [v EXCEPT !.exists = TRUE]

upload_Mkdir(p) ==
    /\ req[p].op = "upload" /\ req[p].pc = "mkdir"
    /\ vault' = [vault EXCEPT ![req[p].file_hash] = Mkdir(@)]
    /\ Set(p, [req[p] EXCEPT !.pc = "copy"])
    /\ UNCHANGED <<books, chapters, next_id>>
    /\ UNCHANGED <<progress, next_progress_id, call>>

\* Lines 284-285: Ingest, the original is copied in. With the directory gone,
\* open() raises, and so does the handler's rmtree: an unhandled 500.
upload_Copy(p) ==
    /\ req[p].op = "upload" /\ req[p].pc = "copy"
    /\ LET d == req[p].file_hash IN
       IF vault[d].exists
       THEN /\ vault' = [vault EXCEPT ![d].originals = @ \cup {req[p].filename}]
            /\ Set(p, [req[p] EXCEPT !.pc = "parse",
                                     !.final_unpacked_path = vault_path(d) \o <<"unpacked">>])
       ELSE /\ Set(p, Finish(req[p], 500, "Internal Server Error"))
            /\ UNCHANGED vault
    /\ UNCHANGED <<books, chapters, next_id>>
    /\ UNCHANGED <<progress, next_progress_id, call>>

\* Lines 290-295: the PDF branch; fitz raises into upload_book's handler.
render_pdf_cover(d, ok) ==
    IF ok
    THEN [chapters_data |-> {}, cover_path |-> vault_path(d) \o <<"cover.png">>,
          raised |-> FALSE]
    ELSE [chapters_data |-> {}, cover_path |-> NoPath, raised |-> TRUE]

\* Lines 287-295: which parser runs for the file name.
RunParser(name, d, ok) ==
    IF IsEpubName(name)
    THEN LET out == unpack_and_parse_epub(Archive(d, ok), vault_path(d))
         IN  [out EXCEPT !.chapters_data = Range(@)]
    ELSE IF IsPdfName(name) THEN render_pdf_cover(d, ok)
    ELSE [chapters_data |-> {}, cover_path |-> NoPath, raised |-> FALSE]

\* Whether a parser ran for the file name, and how it ended.
ParseOutcome(name, ok) ==
    IF IsEpubName(name) \/ IsPdfName(name) THEN (IF ok THEN "ok" ELSE "failed")
    ELSE "none"

\* What a parser run leaves in the vault.
ParserWrites(v, name, ok, out) ==
    IF IsEpubName(name) /\ ok
    THEN [v EXCEPT !.unpacked = TRUE,
                   !.cover = IF out.cover_path # NoPath THEN @ \cup {"cover.jpg"} ELSE @]
    ELSE IF IsPdfName(name) /\ out.cover_path # NoPath
    THEN [v EXCEPT !.cover = @ \cup {"cover.png"}]
    ELSE v

\* Lines 287-299: Ingest, the parse and the except clause around it. A parser
\* reads the original, so with the vault gone it cannot succeed.
upload_Parse(p) ==
    /\ req[p].op = "upload" /\ req[p].pc = "parse"
    /\ LET d == req[p].file_hash
           name == req[p].filename
       IN  \E ok \in {b \in BOOLEAN : b => vault[d].exists} :
             LET out == RunParser(name, d, ok) IN
             LET r == [req[p] EXCEPT !.parse = ParseOutcome(name, ok)] IN
             IF out.raised
             THEN IF vault[d].exists
                  THEN /\ vault' = [vault EXCEPT ![d] = NoVault]
                       /\ Set(p, Finish(r, 500, "Processing failed"))
                  ELSE /\ UNCHANGED vault
                       /\ Set(p, Finish(r, 500, "Internal Server Error"))
             ELSE /\ vault' = [vault EXCEPT ![d] = ParserWrites(@, name, ok, out)]
                  /\ Set(p, [r EXCEPT !.pc = "commit_book",
                                      !.chapters_data = out.chapters_data,
                                      !.final_cover_path = out.cover_path])
    /\ UNCHANGED <<books, chapters, next_id>>
    /\ UNCHANGED <<progress, next_progress_id, call>>

\* Lines 301-308: the BookRecord is added and committed; a commit may fail.
NewBook(r, id) ==
    [id |-> id, owner_id |-> r.user, file_hash |-> r.file_hash,
     file_size |-> SizeOf(r.file_hash), title |-> r.filename,
     file_path |-> r.final_file_path, cover_path |-> r.final_cover_path,
     unpacked_path |-> r.final_unpacked_path]

upload_CommitBook(p) ==
    /\ req[p].op = "upload" /\ req[p].pc = "commit_book"
    /\ \/ /\ books' = books \cup {NewBook(req[p], next_id)}
          /\ next_id' = next_id + 1
          /\ Set(p, [req[p] EXCEPT !.pc = "commit_chapters", !.new_book = next_id])
       \/ /\ Set(p, Finish(req[p], 500, "Internal Server Error"))
          /\ UNCHANGED <<books, next_id>>
    /\ UNCHANGED <<chapters, vault>>
    /\ UNCHANGED <<progress, next_progress_id, call>>

\* The primary key of a chapter row. The table hands out distinct ids; the
\* model numbers the rows by book and order.
chapter_id(book_id, order) == (book_id - 1) * MaxSpine + order + 1

ChapterIds == 1..(MaxBookId * MaxSpine)

\* Lines 310-314: the ChapterRecords are added and committed, a second commit.
NewChapters(r) ==
    { [id |-> chapter_id(r.new_book, c.order), book_id |-> r.new_book,
       order |-> c.order, file_name |-> c.file_name, text |-> c.text] :
        c \in r.chapters_data }

upload_CommitChapters(p) ==
    /\ req[p].op = "upload" /\ req[p].pc = "commit_chapters"
    /\ \/ /\ chapters' = chapters \cup NewChapters(req[p])
          /\ Set(p, Finish(req[p], 200, "OK"))
       \/ /\ Set(p, Finish(req[p], 500, "Internal Server Error"))
          /\ UNCHANGED chapters
    /\ UNCHANGED <<books, next_id, vault>>
    /\ UNCHANGED <<progress, next_progress_id, call>>

\* ------------------------------------------------------------ delete_book
\* OwnedBooks without the owner filter: the book looked up by its id alone.
OwnedBooks_AnyOwner(id, user_id) == {b \in books : b.id = id}

\* Lines 318, 336, 349, 366: the book looked up by id and owner.
OwnedBooks(id, user_id) == {b \in books : b.id = id /\ b.owner_id = user_id}

\* Lines 318-321: the book is looked up by id and owner.
delete_Lookup(p) ==
    /\ req[p].pc = "idle"
    /\ \E u \in Users, id \in 1..MaxBookId :
        LET r == [IdleReq EXCEPT !.op = "delete", !.user = u, !.book_id = id]
            found == OwnedBooks(id, u)
        IN  IF found = {}
            THEN Set(p, Finish(r, 404, "Not Found"))
            ELSE \E book \in found :
                    Set(p, [r EXCEPT !.pc = "del_commit", !.file_hash = book.file_hash])
    /\ UNCHANGED <<books, chapters, next_id, vault>>
    /\ UNCHANGED <<progress, next_progress_id, call>>

\* Lines 322-323: db.delete(book); db.commit(), cascading to the chapters and
\* the progress rows of the book (models.py, lines 31-32). A
\* row another request deleted meanwhile is deleted again without an error
\* (the ORM only warns when a DELETE matches no row). The commit may fail.
delete_Commit(p) ==
    /\ req[p].op = "delete" /\ req[p].pc = "del_commit"
    /\ \/ /\ books' = books \ BookRow(req[p].book_id)
          /\ chapters' = {c \in chapters : c.book_id # req[p].book_id}
          /\ progress' = {g \in progress : g.book_id # req[p].book_id}
          /\ Set(p, [req[p] EXCEPT !.pc = "del_count"])
       \/ /\ Set(p, Finish(req[p], 500, "Internal Server Error"))
          /\ UNCHANGED <<books, chapters, progress>>
    /\ UNCHANGED <<next_id, vault, next_progress_id, call>>

\* ReferenceCount with the query left out: every delete takes the vault along.
ReferenceCount_NoQuery(file_hash) == 0

\* Line 325: the reference count is the number of rows with the digest.
ReferenceCount(file_hash) == Cardinality({b \in books : b.file_hash = file_hash})

delete_Count(p) ==
    /\ req[p].op = "delete" /\ req[p].pc = "del_count"
    /\ IF ReferenceCount(req[p].file_hash) = 0
       THEN Set(p, [req[p] EXCEPT !.pc = "del_exists"])
       ELSE Set(p, Finish(req[p], 200, "Deleted"))
    /\ UNCHANGED <<books, chapters, next_id, vault>>
    /\ UNCHANGED <<progress, next_progress_id, call>>

\* Line 326, the condition: (OBJECTS_DIR / file_hash).exists().
delete_Exists(p) ==
    /\ req[p].op = "delete" /\ req[p].pc = "del_exists"
    /\ IF vault[req[p].file_hash].exists
       THEN Set(p, [req[p] EXCEPT !.pc = "del_rmtree"])
       ELSE Set(p, Finish(req[p], 200, "Deleted"))
    /\ UNCHANGED <<books, chapters, next_id, vault>>
    /\ UNCHANGED <<progress, next_progress_id, call>>

\* Line 326, the body: shutil.rmtree raises when the directory is gone.
delete_Rmtree(p) ==
    /\ req[p].op = "delete" /\ req[p].pc = "del_rmtree"
    /\ LET d == req[p].file_hash IN
       IF vault[d].exists
       THEN /\ vault' = [vault EXCEPT ![d] = NoVault]
            /\ Set(p, Finish(req[p], 200, "Deleted"))
       ELSE /\ UNCHANGED vault
            /\ Set(p, Finish(req[p], 500, "Internal Server Error"))
    /\ UNCHANGED <<books, chapters, next_id>>
    /\ UNCHANGED <<progress, next_progress_id, call>>

\* The response is sent and the worker takes the next request.
Return(p) ==
    /\ req[p].pc = "done"
    /\ Set(p, IdleReq)
    /\ UNCHANGED <<books, chapters, next_id, vault>>
    /\ UNCHANGED <<progress, next_progress_id, call>>

\* ---------------------------------------------------------------- the disk
\* What lies at a normalised path below the storage root. The store holds
\* directories and regular files only: the parsers write no links.
NodeKind(path) ==
    IF path = <<>> \/ path = OBJECTS_DIR THEN "dir"
    ELSE IF Len(path) < 2 \/ path[1] # "objects" THEN "none"
    ELSE LET ds == {d \in Digests : hexdigest(d) = path[2] /\ vault[d].exists} IN
         IF ds = {} THEN "none"
         ELSE LET d0 == CHOOSE d \in ds : TRUE
                  v == vault[d0]
              IN
              IF Len(path) = 2 THEN "dir"
              ELSE IF Len(path) = 3
                   THEN IF path[3] \in v.originals \cup v.cover THEN "file"
                        ELSE IF path[3] = "unpacked" /\ v.unpacked THEN "dir"
                        ELSE "none"
              ELSE IF path[3] # "unpacked" \/ ~v.unpacked THEN "none"
              ELSE IF Len(path) = 4
                   THEN IF path[4] = "images" THEN "dir"
                        ELSE IF path[4] \in {c.file_name : c \in ParsedChapters(d0)} THEN "file"
                        ELSE "none"
              ELSE IF Len(path) = 5 /\ path[4] = "images" /\ path[5] \in ImageFiles
                   THEN "file"
              ELSE "none"

\* pathlib's dir / name: an empty or "." component is dropped, ".." is kept.
PathJoin(dir, name) == IF name \in {"", "."} THEN dir ELSE dir \o <<name>>

\* The walk the operating system makes along a path: ".." steps to the parent
\* of a directory that must exist. ok is FALSE when the walk fails.
RECURSIVE Walk(_, _)
Walk(cur, rest) ==
    IF rest = <<>> THEN [ok |-> NodeKind(cur) # "none", path |-> cur]
    ELSE IF NodeKind(cur) # "dir" THEN [ok |-> FALSE, path |-> cur]
    ELSE IF Head(rest) = ".."
         THEN Walk(IF cur = <<>> THEN cur ELSE SubSeq(cur, 1, Len(cur) - 1), Tail(rest))
    ELSE Walk(cur \o <<Head(rest)>>, Tail(rest))

\* Path.exists()
PathExists(path) == Walk(<<>>, path).ok

\* Path.resolve() of a path that exists: the path the walk ends at.
PathResolve(path) == Walk(<<>>, path).path

\* Whether string a is a prefix of string b, for the component names of the store.
NamePrefix(a, b) == a = b \/ a = ""

\* str(p).startswith(str(q)): a comparison of strings, not of components.
StrStartsWith(p, q) ==
    \/ q = <<>>
    \/ /\ Len(p) >= Len(q)
       /\ SubSeq(p, 1, Len(q) - 1) = SubSeq(q, 1, Len(q) - 1)
       /\ NamePrefix(q[Len(q)], p[Len(q)])

\* -------------------------------------------------------------- get_image
\* The components a requested name is made of, and the requested names: the
\* components joined by "/".
NameParts == {"a.png", "x.png", "..", "."}

MaxNameParts == 2

ImageNames == UNION { [1..n -> NameParts] : n \in 1..MaxNameParts }

\* os.path.basename(name): what follows the last separator.
basename(name) == name[Len(name)]

\* Lines 432-447, for a book row found: the response and the file served.
image_response(book, user_id, name) ==
    IF book.owner_id # user_id THEN [status |-> 403, served |-> NoPath]
    ELSE IF book.unpacked_path = NoPath THEN [status |-> 500, served |-> NoPath]
    ELSE LET images_dir == book.unpacked_path \o <<"images">>
             safe_filename == basename(name)
             target_path == PathJoin(images_dir, safe_filename)
         IN  IF ~PathExists(target_path) THEN [status |-> 404, served |-> NoPath]
             ELSE IF ~StrStartsWith(PathResolve(target_path), PathResolve(images_dir))
                  THEN [status |-> 404, served |-> NoPath]
             ELSE IF NodeKind(PathResolve(target_path)) # "file"
                  THEN [status |-> 500, served |-> NoPath]
             ELSE [status |-> 200, served |-> PathResolve(target_path)]

get_image(p) ==
    /\ req[p].pc = "idle"
    /\ \E u \in Users, id \in 1..MaxBookId, name \in ImageNames :
        LET r == [IdleReq EXCEPT !.op = "image", !.user = u, !.book_id = id,
                                 !.name = name]
        IN  IF BookRow(id) = {}
            THEN Set(p, [r EXCEPT !.pc = "done", !.status = 403])
            ELSE \E book \in BookRow(id) :
                    LET out == image_response(book, u, name) IN
                    Set(p, [r EXCEPT !.pc = "done", !.status = out.status,
                                     !.served = out.served])
    /\ UNCHANGED <<books, chapters, next_id, vault>>
    /\ UNCHANGED <<progress, next_progress_id, call>>

\* ------------------------------------------------- get_cover, download_book
\* Lines 336-341, for the rows the query finds.
cover_response(found) ==
    IF found = {} THEN [status |-> 404, served |-> NoPath]
    ELSE LET book == CHOOSE b \in found : TRUE IN
         IF book.cover_path = NoPath THEN [status |-> 404, served |-> NoPath]
         ELSE IF ~PathExists(book.cover_path) THEN [status |-> 404, served |-> NoPath]
         ELSE IF NodeKind(PathResolve(book.cover_path)) # "file"
              THEN [status |-> 500, served |-> NoPath]
         ELSE [status |-> 200, served |-> PathResolve(book.cover_path)]

get_cover(p) ==
    /\ req[p].pc = "idle"
    /\ \E u \in Users, id \in 1..MaxBookId :
        LET r == [IdleReq EXCEPT !.op = "cover", !.user = u, !.book_id = id]
            out == cover_response(OwnedBooks(id, u))
        IN  Set(p, [r EXCEPT !.pc = "done", !.status = out.status,
                             !.served = out.served])
    /\ UNCHANGED <<books, chapters, next_id, vault>>
    /\ UNCHANGED <<progress, next_progress_id, call>>

\* Lines 349-361, for the rows the query finds.
download_response(found) ==
    IF found = {} THEN [status |-> 404, served |-> NoPath]
    ELSE LET book == CHOOSE b \in found : TRUE IN
         IF ~PathExists(book.file_path) THEN [status |-> 404, served |-> NoPath]
         ELSE IF NodeKind(PathResolve(book.file_path)) # "file"
              THEN [status |-> 500, served |-> NoPath]
         ELSE [status |-> 200, served |-> PathResolve(book.file_path)]

download_book(p) ==
    /\ req[p].pc = "idle"
    /\ \E u \in Users, id \in 1..MaxBookId :
        LET r == [IdleReq EXCEPT !.op = "download", !.user = u, !.book_id = id]
            out == download_response(OwnedBooks(id, u))
        IN  Set(p, [r EXCEPT !.pc = "done", !.status = out.status,
                             !.served = out.served])
    /\ UNCHANGED <<books, chapters, next_id, vault>>
    /\ UNCHANGED <<progress, next_progress_id, call>>

\* ------------------------------------------------------------ get_content
MaxViewports == 2   \* viewport meta tags in a stored chapter

\* The stored chapters the renderer may meet.
Htmls == [viewports : 0..MaxViewports, head : BOOLEAN, body : BOOLEAN]

\* The HTML unpack_and_parse_epub wrote for a chapter, as far as the renderer
\* looks at it: its number of viewport meta tags and whether it has a head and
\* a body element. A function of the archive's bytes and the spine position.
ChapterHtml(d, file_name) ==
    [viewports |-> IF file_name = "chapter_0.html" THEN 0 ELSE 2,
     head |-> TRUE, body |-> TRUE]

\* Lines 396-424: the stored HTML is rendered. The viewport tag is inserted
\* when soup.find finds none; soup.head and soup.body are None when the
\* document has no such element, and appending to None raises.
render(html, book_id) ==
    IF ~html.head \/ ~html.body THEN [raised |-> TRUE, body |-> NoBody]
    ELSE [raised |-> FALSE,
          body |-> [kind |-> "html",
                    viewports |-> IF html.viewports = 0 THEN 1 ELSE html.viewports,
                    images_of |-> book_id]]

\* Lines 390-424, GET: the chapter by its id alone, the owner of its book, the
\* file below the book's unpacked path.
content_response(book_id, chapter, user_id) ==
    IF chapter = {} THEN [status |-> 404, body |-> NoBody]
    ELSE LET c == CHOOSE x \in chapter : TRUE IN
         IF BookRow(c.book_id) = {} THEN [status |-> 500, body |-> NoBody]
         ELSE LET book == CHOOSE b \in BookRow(c.book_id) : TRUE IN
              IF book.owner_id # user_id THEN [status |-> 404, body |-> NoBody]
              ELSE IF book.unpacked_path = NoPath THEN [status |-> 500, body |-> NoBody]
              ELSE LET path == PathJoin(book.unpacked_path, c.file_name) IN
                   IF ~PathExists(path) THEN [status |-> 404, body |-> NoBody]
                   ELSE LET out == render(ChapterHtml(book.file_hash, c.file_name), book_id)
                        IN  IF out.raised THEN [status |-> 500, body |-> NoBody]
                            ELSE [status |-> 200, body |-> out.body]

\* Lines 380-424. Line 387: a HEAD request is answered before any query.
get_content(p) ==
    /\ req[p].pc = "idle"
    /\ \E u \in Users, id \in 1..MaxBookId, cid \in ChapterIds, method \in {"GET", "HEAD"} :
        LET r == [IdleReq EXCEPT !.op = "content", !.user = u, !.book_id = id,
                                 !.chapter_id = cid, !.method = method]
            out == content_response(id, {c \in chapters : c.id = cid}, u)
        IN  IF method = "HEAD"
            THEN Set(p, [r EXCEPT !.pc = "done", !.status = 200,
                                  !.body = [NoBody EXCEPT !.kind = "empty"]])
            ELSE Set(p, [r EXCEPT !.pc = "done", !.status = out.status,
                                  !.body = out.body])
    /\ UNCHANGED <<books, chapters, next_id, vault>>
    /\ UNCHANGED <<progress, next_progress_id, call>>

\* -------------------------------------------------------- update_progress
MaxProgressId == 2  \* ids the user_book_progress table hands out before the model stops

\* The request bodies a client sends: chapter_index and progress_percent.
Updates == {<<0, 0>>, <<1, 50>>}

\* The updates that found no row and have not yet inserted theirs.
Inserting == {p \in Procs : req[p].pc = "prog_commit" /\ req[p].prog = 0}

\* Line 458: the row of the caller and the book, .first() of the rows found.
\* The model admits an update that finds none only while the table has an id
\* left for it.
update_Query(p, updates) ==
    /\ req[p].pc = "idle"
    /\ \E u \in Users, id \in 1..MaxBookId, update \in updates :
        LET r == [IdleReq EXCEPT !.op = "progress", !.pc = "prog_commit", !.user = u,
                                 !.book_id = id, !.update = update]
            found == {g \in progress : g.user_id = u /\ g.book_id = id}
        IN  IF found = {}
            THEN /\ next_progress_id + Cardinality(Inserting) <= MaxProgressId
                 /\ Set(p, r)
            ELSE \E prog \in found : Set(p, [r EXCEPT !.prog = prog.id])
    /\ UNCHANGED <<books, chapters, next_id, vault>>
    /\ UNCHANGED <<progress, next_progress_id, call>>

\* Lines 459-467: a new row is added, or the row found is changed, and the
\* session committed. The UPDATE of a row deleted meanwhile matches no row and
\* the commit raises; any commit may fail.
update_Commit(p) ==
    /\ req[p].op = "progress" /\ req[p].pc = "prog_commit"
    /\ \/ /\ req[p].prog = 0
          /\ progress' = progress \cup
                {[id |-> next_progress_id, user_id |-> req[p].user,
                  book_id |-> req[p].book_id, chapter_index |-> req[p].update[1],
                  progress_percent |-> req[p].update[2]]}
          /\ next_progress_id' = next_progress_id + 1
          /\ Set(p, Finish(req[p], 200, "Saved"))
       \/ /\ req[p].prog # 0
          /\ \E g \in progress : g.id = req[p].prog
          /\ progress' = {IF g.id = req[p].prog
                          THEN [g EXCEPT !.chapter_index = req[p].update[1],
                                         !.progress_percent = req[p].update[2]]
                          ELSE g : g \in progress}
          /\ Set(p, Finish(req[p], 200, "Saved"))
          /\ UNCHANGED next_progress_id
       \/ /\ Set(p, Finish(req[p], 500, "Internal Server Error"))
          /\ UNCHANGED <<progress, next_progress_id>>
    /\ UNCHANGED <<books, chapters, next_id, vault, call>>

\* ---------------------------------------------------------- specifications
upload_book(p, files) ==
    \/ upload_Validating(p, files)
    \/ upload_QuotaCheck(p)
    \/ upload_DuplicateCheck(p)
    \/ upload_VaultExists(p)
    \/ upload_ReuseBook(p)
    \/ upload_ReuseChapters(p)
    \/ upload_Mkdir(p)
    \/ upload_Copy(p)
    \/ upload_Parse(p)
    \/ upload_CommitBook(p)
    \/ upload_CommitChapters(p)

delete_book(p) ==
    \/ delete_Lookup(p)
    \/ delete_Commit(p)
    \/ delete_Count(p)
    \/ delete_Exists(p)
    \/ delete_Rmtree(p)

\* Requests run in parallel, each on a worker of its own; the uploads are
\* sent under lower-case names.
Next == \E p \in Procs : upload_book(p, PlainUploads) \/ delete_book(p) \/ Return(p)

Spec == Init /\ [][Next]_vars

\* Requests run one at a time: a single worker takes them all; the uploads are
\* sent under any of the names.
NextSeq == upload_book(1, Uploads) \/ delete_book(1) \/ Return(1)

SpecSeq == Init /\ [][NextSeq]_vars

\* The same, with the read endpoints among the requests.
NextRead ==
    \/ NextSeq
    \/ get_image(1)
    \/ get_cover(1)
    \/ download_book(1)
    \/ get_content(1)

SpecRead == Init /\ [][NextRead]_vars

update_progress(p, updates) == update_Query(p, updates) \/ update_Commit(p)

\* Progress updates run in parallel, each on a worker of its own.
NextProgress == \E p \in Procs : update_progress(p, Updates) \/ Return(p)

SpecProgress == Init /\ [][NextProgress]_vars

\* The ledger and the disk once user 1 has uploaded the EPUB as b.epub.
FirstUpload ==
    [IdleReq EXCEPT !.user = 1, !.file_hash = 1, !.filename = "b.epub",
                    !.final_file_path = vault_path(1) \o <<"b.epub">>,
                    !.final_cover_path = RunParser("b.epub", 1, TRUE).cover_path,
                    !.final_unpacked_path = vault_path(1) \o <<"unpacked">>,
                    !.chapters_data = RunParser("b.epub", 1, TRUE).chapters_data,
                    !.new_book = 1]

InitLedger ==
    /\ books = {NewBook(FirstUpload, 1)}
    /\ chapters = NewChapters(FirstUpload)
    /\ next_id = 2
    /\ vault = [d \in Digests |->
                  IF d = 1
                  THEN ParserWrites([Mkdir(NoVault) EXCEPT !.originals = {"b.epub"}],
                                    "b.epub", TRUE, RunParser("b.epub", 1, TRUE))
                  ELSE NoVault]
    /\ req = [p \in Procs |-> IdleReq]
    /\ progress = {}
    /\ next_progress_id = 1
    /\ call = NoCall

\* From there, deletes and progress updates run one at a time.
NextLedger == delete_book(1) \/ update_progress(1, Updates) \/ Return(1)

SpecLedger == InitLedger /\ [][NextLedger]_vars

\* A parser called on its own, on any archive.
call_find_epub_cover ==
    /\ call.fn = "none" /\ call.given = "archive"
    /\ call' = [call EXCEPT
                  !.fn = "find_epub_cover",
                  !.returned = [NoReturn EXCEPT
                      !.cover = find_epub_cover(call.archive),
                      !.cover_path = IF find_epub_cover(call.archive) # "none"
                                     THEN vault_path(call.archive.bytes) \o <<"cover.jpg">>
                                     ELSE NoPath]]
    /\ UNCHANGED <<books, chapters, next_id, vault, req, progress, next_progress_id>>

call_unpack_and_parse_epub ==
    /\ call.fn = "none" /\ call.given = "archive"
    /\ LET out == unpack_and_parse_epub(call.archive, vault_path(call.archive.bytes))
       IN  call' = [call EXCEPT
                      !.fn = "unpack_and_parse_epub",
                      !.returned = [NoReturn EXCEPT
                          !.chapters_data = out.chapters_data,
                          !.cover_path = out.cover_path,
                          !.raised = out.raised]]
    /\ UNCHANGED <<books, chapters, next_id, vault, req, progress, next_progress_id>>

\* The renderer called on its own, on any stored chapter.
call_render ==
    /\ call.fn = "none" /\ call.given = "html"
    /\ LET out == render(call.html, 1)
       IN  call' = [call EXCEPT
                      !.fn = "render",
                      !.returned = [NoReturn EXCEPT !.raised = out.raised,
                                                    !.body = out.body]]
    /\ UNCHANGED <<books, chapters, next_id, vault, req, progress, next_progress_id>>

InitCalls ==
    /\ books = {}
    /\ chapters = {}
    /\ next_id = 1
    /\ vault = [d \in Digests |-> NoVault]
    /\ req = [p \in Procs |-> IdleReq]
    /\ progress = {}
    /\ next_progress_id = 1
    /\ call \in {[NoCall EXCEPT !.given = "archive", !.archive = a] : a \in Archives}
                \cup {[NoCall EXCEPT !.given = "html", !.html = h] : h \in Htmls}

NextCalls == call_find_epub_cover \/ call_unpack_and_parse_epub \/ call_render

SpecCalls == InitCalls /\ [][NextCalls]_vars

\* ------------------------------------------------------------------ claims
\* The single worker of SpecSeq and SpecRead.
w == req[1]

RowsOf(d) == {b \in books : b.file_hash = d}

\* The ledger as it was before the finished upload r added its row.
Before(r) == {b \in books : b.id # r.new_book}

\* C1 (as stated): with requests run one at a time, an upload of a digest its
\* owner already holds ends 400 "Book already exists" and adds no BookRecord,
\* while an upload by an owner who does not hold it, of a digest another owner
\* holds, is not turned away and, when it ends 200, leaves the vault on disk
\* and one BookRecord per owner that uploaded the digest.
C1_DuplicateAlwaysDuplicateBook ==
    (w.op = "upload" /\ w.pc = "done" /\ ValidExtension(w.filename)) =>
        LET prior == {b \in Before(w) : b.file_hash = w.file_hash}
            mine == {b \in prior : b.owner_id = w.user}
        IN  /\ mine # {} =>
                /\ w.status = 400 /\ w.detail = "Book already exists"
                /\ w.new_book = 0
            /\ (mine = {} /\ prior # {}) =>
                /\ w.status # 400
                /\ w.status = 200 =>
                    /\ vault[w.file_hash].exists
                    /\ Cardinality(RowsOf(w.file_hash)) = Cardinality(prior) + 1

\* C1 (amended): as above, except that QuotaCheck runs before DuplicateCheck:
\* the repeated upload is turned away (400, no BookRecord added) as
\* QuotaExceeded when the owner's usage plus the file size is over the cap and
\* as DuplicateBook otherwise; the other owner's upload, when within that
\* owner's quota, takes the Reuse branch and is turned away by no check, and
\* when it ends 200 the vault is on disk and every owner holds at most one
\* BookRecord of the digest, the new one included.
C1_DuplicatePerOwner ==
    (w.op = "upload" /\ w.pc = "done" /\ ValidExtension(w.filename)) =>
        LET prior == {b \in Before(w) : b.file_hash = w.file_hash}
            mine == {b \in prior : b.owner_id = w.user}
            over == SumSizes({b \in Before(w) : b.owner_id = w.user})
                        + SizeOf(w.file_hash) > MAX_STORAGE_BYTES
        IN  /\ mine # {} =>
                /\ w.status = 400
                /\ w.detail = IF over THEN "Storage limit exceeded"
                              ELSE "Book already exists"
                /\ w.new_book = 0
                /\ w.branch = "none"
            /\ (mine = {} /\ prior # {} /\ ~over) =>
                /\ w.status # 400
                /\ w.branch = "reuse"
                /\ w.status = 200 =>
                    /\ vault[w.file_hash].exists
                    /\ Cardinality(RowsOf(w.file_hash)) = Cardinality(prior) + 1
                    /\ \A u \in Users :
                        Cardinality({b \in RowsOf(w.file_hash) : b.owner_id = u}) <= 1

\* C1 witness: a repeated upload has just been turned away as a duplicate
\* while two owners hold the digest and share its one vault.
C1_Witness ==
    /\ w.op = "upload" /\ w.pc = "done" /\ w.detail = "Book already exists"
    /\ vault[w.file_hash].exists
    /\ Cardinality(RowsOf(w.file_hash)) = 2
    /\ \E a, b \in RowsOf(w.file_hash) : a.owner_id # b.owner_id

\* C2: with requests run one at a time, once delete_book has removed a
\* BookRecord with digest d, the vault of d is on disk if another BookRecord
\* references d and absent if none does.
C2_VaultFollowsReferences ==
    (w.op = "delete" /\ w.pc = "done" /\ w.file_hash # 0 /\ BookRow(w.book_id) = {}) =>
        (vault[w.file_hash].exists <=> RowsOf(w.file_hash) # {})

\* C2 witness: one of two BookRecords sharing a digest has been deleted and
\* the vault is still there for the other.
C2_Witness ==
    /\ w.op = "delete" /\ w.pc = "done" /\ w.status = 200
    /\ BookRow(w.book_id) = {}
    /\ RowsOf(w.file_hash) # {}
    /\ vault[w.file_hash].exists

\* C3: two uploads of one digest by different owners are never both inside
\* the Ingest branch (vault creation, copy, parse) at the same time.
C3_SingleIngest ==
    \A p, q \in Procs :
        (/\ p # q
         /\ req[p].op = "upload" /\ req[q].op = "upload"
         /\ req[p].file_hash = req[q].file_hash
         /\ req[p].user # req[q].user
         /\ req[p].pc \in {"copy", "parse"})
        => req[q].pc \notin {"copy", "parse"}

\* C4: once a delete_book of digest d and an upload of d that took the Reuse
\* branch have both completed, every BookRecord of d has its vault on disk.
C4_NoRecordWithoutVault ==
    \A p, q \in Procs :
        (/\ req[p].op = "delete" /\ req[p].pc = "done" /\ req[p].status = 200
         /\ req[q].op = "upload" /\ req[q].pc = "done" /\ req[q].branch = "reuse"
         /\ req[q].file_hash = req[p].file_hash)
        => \A b \in RowsOf(req[p].file_hash) : vault[b.file_hash].exists

\* C5: an upload in the Ingest branch whose parser failed has ended with 500
\* "Processing failed", its vault is gone and it has created no BookRecord.
C5_ParseFailureFatal ==
    (w.op = "upload" /\ w.branch = "ingest" /\ w.parse = "failed") =>
        /\ w.pc = "done" /\ w.status = 500 /\ w.detail = "Processing failed"
        /\ w.new_book = 0
        /\ ~vault[w.file_hash].exists

\* C6: whenever the BookRecord of an upload is in the ledger, so are the
\* ChapterRecords produced for that upload.
C6_CommitAtomic ==
    \A p \in Procs :
        (req[p].op = "upload" /\ req[p].new_book # 0 /\ BookRow(req[p].new_book) # {})
        => {c \in chapters : c.book_id = req[p].new_book} = NewChapters(req[p])

\* C7: every BookRecord in the ledger references a vault that is completely
\* written: on disk, holding an original, and with no Ingest still writing it.
C7_RecordAfterVault ==
    \A b \in books :
        /\ vault[b.file_hash].exists
        /\ vault[b.file_hash].originals # {}
        /\ \A p \in Procs :
            ~(/\ req[p].op = "upload" /\ req[p].file_hash = b.file_hash
              /\ req[p].pc \in {"copy", "parse"})

\* C8: after an upload of the Ingest branch has failed at a ledger commit, no
\* vault is left on disk whose digest no BookRecord references.
C8_NoOrphanVault ==
    (/\ w.op = "upload" /\ w.pc = "done" /\ w.branch = "ingest"
     /\ w.status = 500 /\ w.parse # "failed") =>
        (vault[w.file_hash].exists => RowsOf(w.file_hash) # {})

C10_ImageInsideDirectory ==
    (w.op = "image" /\ w.pc = "done" /\ w.status = 200) =>
        /\ Len(w.name) = 1
        /\ \E b \in BookRow(w.book_id) :
            /\ b.owner_id = w.user
            /\ Len(w.served) = Len(b.unpacked_path) + 2
            /\ SubSeq(w.served, 1, Len(w.served) - 1) = b.unpacked_path \o <<"images">>

\* C11: when get_image finds the caller's book, a target absent from disk is
\* answered 404 and a target that resolves outside the book's images directory
\* is answered 403, never 404.
C11_EscapeForbidden ==
    (w.op = "image" /\ w.pc = "done") =>
        \A b \in BookRow(w.book_id) :
            (b.owner_id = w.user /\ b.unpacked_path # NoPath) =>
                LET images_dir == b.unpacked_path \o <<"images">>
                    target_path == PathJoin(images_dir, basename(w.name))
                IN  /\ ~PathExists(target_path) => w.status = 404
                    /\ (/\ PathExists(target_path)
                        /\ ~StrStartsWith(PathResolve(target_path), PathResolve(images_dir)))
                       => w.status = 403

\* C12: a content request, GET or HEAD, for a chapter id that does not exist
\* or whose book the caller does not own is answered 404; a HEAD request is
\* answered 200 only for a chapter that exists and whose book the caller owns.
C12_ContentNotFound ==
    (w.op = "content" /\ w.pc = "done") =>
        LET owned == \E c \in chapters, b \in books :
                        c.id = w.chapter_id /\ b.id = c.book_id /\ b.owner_id = w.user
        IN  /\ ~owned => w.status = 404
            /\ (w.method = "HEAD" /\ w.status = 200) =>
                   (owned /\ w.body.kind = "empty")

\* C13: a delete_book request for a book id that no BookRecord has, or whose
\* BookRecord another user owns, is answered 404 and leaves the books,
\* chapters and progress tables and every vault as they were.
C13_DeleteNotFoundFrame ==
    [][(/\ w.pc = "idle" /\ w'.op = "delete"
        /\ \A b \in books : b.id = w'.book_id => b.owner_id # w'.user)
       => /\ w'.pc = "done" /\ w'.status = 404
          /\ books' = books /\ chapters' = chapters
          /\ progress' = progress /\ vault' = vault]_vars

\* C13 witness: a user has just been refused the delete of another user's
\* book, while that book has chapters, a vault and a progress row.
C13_Witness ==
    /\ w.op = "delete" /\ w.pc = "done" /\ w.status = 404
    /\ \E b \in BookRow(w.book_id) :
        /\ b.owner_id # w.user
        /\ vault[b.file_hash].exists
        /\ \E c \in chapters : c.book_id = b.id
        /\ \E g \in progress : g.book_id = b.id

\* C17: the progress table holds at most one row per user and book.
C17_OneProgressRow ==
    \A g, h \in progress :
        (g.user_id = h.user_id /\ g.book_id = h.book_id) => g = h

\* The chapter list of a BookRecord: its ChapterRecords without their keys.
ChapterList(id) ==
    { [order |-> c.order, file_name |-> c.file_name, text |-> c.text] :
        c \in {x \in chapters : x.book_id = id} }

\* C14: with requests run one at a time, an upload that took the Reuse branch
\* and has created its BookRecord ran no parser, and between requests all
\* BookRecords sharing a digest have the same file, cover and unpacked paths
\* and identical chapter lists.
C14_ReuseIdentical ==
    (w.pc \in {"idle", "done"}) =>
        /\ (w.op = "upload" /\ w.branch = "reuse" /\ w.new_book # 0) => w.parse = "none"
        /\ \A a, b \in books :
            a.file_hash = b.file_hash =>
                /\ a.file_path = b.file_path
                /\ a.cover_path = b.cover_path
                /\ a.unpacked_path = b.unpacked_path
                /\ ChapterList(a.id) = ChapterList(b.id)

\* C15: the chapter dicts unpack_and_parse_epub returns for a spine have, in
\* the order returned, the order values 0, 1, ..., N-1, N being their number.
C15_DenseOrders ==
    (call.fn = "unpack_and_parse_epub") =>
        \A i \in 1..Len(call.returned.chapters_data) :
            call.returned.chapters_data[i].order = i - 1

\* C16: find_epub_cover returns the cover of the first of Plan A, Plan B and
\* Plan C that finds one, whether or not the stages before it raised, and
\* None when none finds one; it never raises, and unpack_and_parse_epub of an
\* archive it can read and decode returns one chapter per spine document
\* whatever the stages did.
C16_CoverChain ==
    LET a == call.archive
        first == IF a.planA = "found" THEN "A"
                 ELSE IF a.planB = "found" THEN "B"
                 ELSE IF a.planC = "found" THEN "C"
                 ELSE "none"
        decodable == a.readable /\ \A i \in DOMAIN a.spine : a.spine[i] # "undecodable"
    IN  /\ call.fn = "find_epub_cover" =>
            /\ call.returned.cover = first
            /\ call.returned.cover_path = NoPath <=> first = "none"
            /\ ~call.returned.raised
        /\ (call.fn = "unpack_and_parse_epub" /\ decodable) =>
            /\ ~call.returned.raised
            /\ call.returned.cover_path = NoPath <=> first = "none"
            /\ Len(call.returned.chapters_data)
                 = Cardinality({i \in DOMAIN a.spine : a.spine[i] = "doc"})

\* C16 witness: Plan A raised, Plan B found nothing, and the cover returned is
\* the one Plan C found.
C16_Witness ==
    /\ call.fn = "find_epub_cover"
    /\ call.archive.planA = "raises" /\ call.archive.planB = "empty"
    /\ call.archive.planC = "found"
    /\ call.returned.cover = "C" /\ call.returned.cover_path # NoPath

\* C18: a read request (cover, download, content, image) for a row the caller
\* owns whose file, directory or path is missing on disk or unset in the
\* ledger is answered 404.
C18_MissingIsNotFound ==
    (w.pc = "done") =>
        \A b \in books :
            (b.owner_id = w.user) =>
                /\ (/\ w.op = "cover" /\ b.id = w.book_id
                    /\ (b.cover_path = NoPath \/ ~PathExists(b.cover_path)))
                   => w.status = 404
                /\ (/\ w.op = "download" /\ b.id = w.book_id
                    /\ ~PathExists(b.file_path))
                   => w.status = 404
                /\ (/\ w.op = "image" /\ b.id = w.book_id
                    /\ (\/ b.unpacked_path = NoPath
                        \/ ~PathExists(PathJoin(b.unpacked_path \o <<"images">>,
                                                basename(w.name)))))
                   => w.status = 404
                /\ \A c \in chapters :
                    (/\ w.op = "content" /\ w.method = "GET"
                     /\ c.id = w.chapter_id /\ c.book_id = b.id
                     /\ (\/ b.unpacked_path = NoPath
                         \/ ~PathExists(PathJoin(b.unpacked_path, c.file_name))))
                    => w.status = 404

\* C19: the HTML the renderer returns for a stored chapter holds exactly one
\* viewport meta tag, however many the stored chapter holds.
C19_OneViewport ==
    (call.fn = "render" /\ ~call.returned.raised) =>
        call.returned.body.viewports = 1

\* C20: an upload in the Ingest branch that has reached Committing (its name
\* passed Validating and its vault did not exist) has run the parser of its
\* type.
C20_ParserRuns ==
    (/\ w.op = "upload" /\ w.branch = "ingest"
     /\ \/ w.pc \in {"commit_book", "commit_chapters"}
        \/ w.pc = "done" /\ w.status = 200)
    => w.parse \in {"ok", "failed"}

\* The tables and the disk an upload may write.
Stores == <<books, chapters, next_id, vault>>

\* C21: with requests run one at a time, an upload passes Validating,
\* QuotaCheck, DuplicateCheck, then Reuse or Ingest, then Committing, in that
\* order; one that fails several checks is answered with the earliest
\* (invalid name before quota before duplicate); nothing is written to the
\* ledger or the disk before DuplicateCheck has passed; and it ends 200 only
\* out of Committing, with its BookRecord in the ledger.
C21_CheckOrder ==
    /\ [](w.op = "upload" /\ w.pc = "done" =>
            IF ~ValidExtension(w.filename)
            THEN w.status = 400 /\ w.detail = "Invalid file type"
            ELSE LET mine == {b \in Before(w) : b.owner_id = w.user}
                     over == SumSizes(mine) + SizeOf(w.file_hash) > 1024 * 1024 * 1024
                     dup == \E b \in mine : b.file_hash = w.file_hash
                 IN  IF over THEN w.status = 400 /\ w.detail = "Storage limit exceeded"
                     ELSE IF dup THEN w.status = 400 /\ w.detail = "Book already exists"
                     ELSE w.status # 400 /\ w.branch # "none")
    /\ [][/\ (w.pc = "idle" /\ w'.op = "upload") =>
                /\ w'.pc \in {"quota", "done"}
                /\ Stores' = Stores
          /\ (w.op = "upload" /\ w.pc = "quota") =>
                /\ w'.pc \in {"dup", "done"}
                /\ Stores' = Stores
          /\ (w.op = "upload" /\ w.pc = "dup") =>
                /\ w'.pc \in {"exists", "done"}
                /\ Stores' = Stores
          /\ (w.op = "upload" /\ w.pc = "exists") =>
                /\ w'.pc \in {"reuse_book", "mkdir"}
                /\ Stores' = Stores
          /\ (w.op = "upload" /\ w.pc = "reuse_book") =>
                w'.pc \in {"reuse_chapters", "commit_book"}
          /\ (w.op = "upload" /\ w.pc \in {"reuse_chapters"}) => w'.pc = "commit_book"
          /\ (w.op = "upload" /\ w.pc = "mkdir") => w'.pc = "copy"
          /\ (w.op = "upload" /\ w.pc = "copy") => w'.pc \in {"parse", "done"}
          /\ (w.op = "upload" /\ w.pc = "parse") => w'.pc \in {"commit_book", "done"}
          /\ (w.op = "upload" /\ w.pc = "commit_book") =>
                w'.pc \in {"commit_chapters", "done"}
          /\ (w.op = "upload" /\ w.pc = "commit_chapters") => w'.pc = "done"
          /\ (w.pc # "done" /\ w'.op = "upload" /\ w'.pc = "done" /\ w'.status = 200) =>
                /\ w.op = "upload" /\ w.pc = "commit_chapters"
                /\ \E b \in books : b.id = w.new_book]_vars

\* C21 witness: an upload that is both over its owner's quota and a duplicate
\* of a book the owner holds has been answered with the quota error.
C21_Witness ==
    /\ w.op = "upload" /\ w.pc = "done" /\ w.detail = "Storage limit exceeded"
    /\ w.branch = "none"
    /\ \E b \in books : b.owner_id = w.user /\ b.file_hash = w.file_hash

\* C22: once two delete_book requests running at the same time have removed
\* the last two BookRecords of a digest, both have ended 200 and the vault of
\* the digest is gone from disk.
C22_ConcurrentDeletes ==
    \A p, q \in Procs :
        (/\ p # q
         /\ req[p].op = "delete" /\ req[p].pc = "done"
         /\ req[q].op = "delete" /\ req[q].pc = "done"
         /\ req[p].file_hash # 0 /\ req[p].file_hash = req[q].file_hash
         /\ req[p].book_id # req[q].book_id
         /\ BookRow(req[p].book_id) = {} /\ BookRow(req[q].book_id) = {}
         /\ RowsOf(req[p].file_hash) = {})
        => /\ req[p].status = 200 /\ req[q].status = 200
           /\ ~vault[req[p].file_hash].exists

\* C23: no owner has two BookRecords with the same digest.
C23_NoDuplicatePerOwner ==
    \A a, b \in books :
        (a.owner_id = b.owner_id /\ a.file_hash = b.file_hash) => a.id = b.id

\* C24: the file sizes of each owner's BookRecords sum to at most the cap.
C24_UsageWithinCap ==
    \A u \in Users :
        SumSizes({b \in books : b.owner_id = u}) <= 1024 * 1024 * 1024

\* C25: a GET of the content endpoint answered with rendered HTML named, in
\* its URL, the book the chapter belongs to, and the image URLs of the HTML
\* name that book.
C25_ChapterOfBook ==
    (w.op = "content" /\ w.method = "GET" /\ w.pc = "done" /\ w.status = 200) =>
        \E c \in chapters :
            /\ c.id = w.chapter_id
            /\ c.book_id = w.book_id
            /\ w.body.images_of = c.book_id

====
